---- MODULE Spec2Model ----
(***************************************************************************)
(* Model of figstats/stats.py: the Figshare statistics client.             *)
(*                                                                         *)
(* One behaviour is one client (the state after __init__) on which one     *)
(* public method is called.  A method that issues several HTTP requests    *)
(* takes one step per request, so that a request failing in the middle of  *)
(* a loop is a state of its own.                                           *)
(*                                                                         *)
(* Strings that take part in URL construction are sequences of chunks:     *)
(* the separator "/" is always a chunk of its own and no other chunk       *)
(* contains it.  E-mail addresses are sequences of single characters,      *)
(* because the code searches them with a regular expression.               *)
(***************************************************************************)
EXTENDS Integers, Sequences, FiniteSets

(***************************************************************************)
(* Bounds                                                                  *)
(***************************************************************************)
\* longest accounts listing the remote API answers with
MaxAccounts == 3
\* largest accounts table handed to get_institution_totals
MaxRows == 7

(***************************************************************************)
(* Strings and os.path.join                                                *)
(***************************************************************************)
SEP == "/"

StartsWithSep(s) == Len(s) > 0 /\ s[1] = SEP

EndsWithSep(s) == Len(s) > 0 /\ s[Len(s)] = SEP

\* one round of the loop of posixpath.join: an absolute component replaces
\* the path, a separator is inserted unless the path is empty or ends in one
JoinStep(path, b) ==
    IF StartsWithSep(b) THEN b
    ELSE IF path = <<>> \/ EndsWithSep(path) THEN path \o b
    ELSE path \o <<SEP>> \o b

RECURSIVE Join(_)
\* os.path.join(parts[1], parts[2], ...)
Join(parts) ==
    IF Len(parts) = 1 THEN parts[1]
    ELSE JoinStep(Join(SubSeq(parts, 1, Len(parts) - 1)), parts[Len(parts)])

DIGITS == <<"0", "1", "2", "3", "4", "5", "6", "7", "8", "9">>

RECURSIVE Str(_)
\* str(n) of a non-negative integer: its decimal digits
Str(n) ==
    IF n < 10 THEN <<DIGITS[n + 1]>>
    ELSE Str(n \div 10) \o <<DIGITS[(n % 10) + 1]>>

(***************************************************************************)
(* Constants of the client                                                 *)
(***************************************************************************)
\* 'https://stats.figshare.com'
stats_baseurl == <<"https:", SEP, SEP, "stats.figshare.com">>

\* 'https://api.figshare.com/v2/account/'
main_baseurl ==
    <<"https:", SEP, SEP, "api.figshare.com", SEP, "v2", SEP, "account", SEP>>

\* value of an attribute that __init__ did not set
UNSET == <<"<no attribute>">>

CountersDownloadsFirst == <<"downloads", "views", "shares">>

\* the loop order of get_totals and get_timeline
counters == <<"views", "downloads", "shares">>

\* the item types get_totals accepts
ITEM_TYPES == {"article", "author", "collection", "group", "project"}

ValidItemAny(item) == TRUE

\* the check of get_totals: item in [...]
ValidItem(item) == item \in ITEM_TYPES

PAGE == 1

PAGE_SIZE == 1000

ParamsSmallPage == [page |-> PAGE, page_size |-> 100]

\* the query parameters of the accounts listing
Params == [page |-> PAGE, page_size |-> PAGE_SIZE]

ADMIN_EMAIL ==
    <<"d","a","t","a","-","m","a","n","a","g","e","m","e","n","t","@",
      "e","m","a","i","l",".","a","r","i","z","o","n","a",".","e","d","u">>

\* the regular expression handed to str.contains
TEST_PATTERN ==
    <<"-","t","e","s","t","@","e","m","a","i","l",".","a","r","i","z","o",
      "n","a",".","e","d","u">>

\* first and last row label of the slice df.loc[0:5, 'author_id']
FIRST_LABEL == 0

LAST_LABEL == 5

(***************************************************************************)
(* Inputs                                                                  *)
(***************************************************************************)
\* institute identifiers a client is constructed with ('' is the default)
Institutes == {<<>>, <<"ua">>}

\* item ids, one with several digits
ItemIds == {7, 99}

\* item types passed by callers: the supported ones and two others
ItemArgs == ITEM_TYPES \cup {"file", "dataset"}

Granularities == {"day", "week", "month"}

\* by_method arguments of get_institution_totals
ByMethods == {"author", "article", "group"}

\* links handed directly to stats_endpoint
Links ==
    { <<"total", SEP, "views", SEP, "article", SEP, "7">>,
      <<"timeline", SEP, "day", SEP, "shares", SEP, "group", SEP, "99">>,
      <<"total">> }

\* totals the statistics service reports, per counter
StatsTables ==
    { [c \in {"views", "downloads", "shares"} |-> 42],
      [views |-> 10, downloads |-> 20, shares |-> 30] }

EmailUser ==
    <<"j","d","o","e","@","e","m","a","i","l",".","a","r","i","z","o","n",
      "a",".","e","d","u">>

EmailTest ==
    <<"j","d","-","t","e","s","t","@","e","m","a","i","l",".","a","r","i",
      "z","o","n","a",".","e","d","u">>

\* matches the pattern only because "." is a wildcard
EmailWild ==
    <<"q","a","-","t","e","s","t","@","e","m","a","i","l","-","a","r","i",
      "z","o","n","a",".","e","d","u">>

Emails == {ADMIN_EMAIL, EmailUser, EmailTest, EmailWild}

\* institutional user id of the k-th listed account
UserIdAt(k) == 10 + k

\* the author id the account API reports for an institutional user id
AuthorIdOf(uid) == 100 + uid

\* the accounts listings the remote API may answer with
AccountLists ==
    UNION { { [k \in 1..n |-> [id |-> UserIdAt(k), email |-> e[k],
                                institution_id |-> 1]] :
              e \in [1..n -> Emails] } : n \in 0..MaxAccounts }

\* an accounts table with author ids, as retrieve_institution_users builds
\* it; with dup the row of label 6 repeats the author of label 1
TableOf(n, dup) ==
    [k \in 1..n |->
        [id |-> UserIdAt(k), email |-> EmailUser,
         author_id |-> IF dup /\ k = 7 THEN AuthorIdOf(UserIdAt(2))
                       ELSE AuthorIdOf(UserIdAt(k))]]

TotalsTables == { TableOf(n, dup) : n \in 0..MaxRows, dup \in BOOLEAN }

\* accounts tables without author ids handed to get_figshare_id
PlainTables ==
    { [k \in 1..n |-> [id |-> UserIdAt(k), email |-> EmailUser]] :
      n \in 0..MaxAccounts }

\* df=None: no table
None == <<[none |-> TRUE]>>

VARIABLES
    institution,              \* self.institution
    institute,                \* the institute argument of __init__
    stats_baseurl_institute,  \* self.stats_baseurl_institute or UNSET
    main_baseurl_institute,   \* self.main_baseurl_institute or UNSET
    stats,                    \* the remote service: totals per counter
    op,                       \* the public method called, "" before the call
    args,                     \* its arguments
    pc,                       \* position in the code
    status,                   \* "idle", "running", "returned" or "raised"
    ret,                      \* the value returned
    err,                      \* the exception raised
    log,                      \* the calls of issue_request, in order
    resp,                     \* the outcome of each of them
    printed,                  \* the lines printed
    total_dict,               \* total_dict of get_totals / get_timeline
    ctr,                      \* index into counters of the running loop
    accounts_df,              \* accounts_df / df
    author_id,                \* the list author_id of get_figshare_id
    inst_dict,                \* total_dict of get_institution_totals
    row,                      \* position in the sliced rows
    frame,                    \* arguments of the running get_totals
    ignore_admin              \* ignore_admin of retrieve_institution_users

config == <<institution, institute, stats_baseurl_institute,
            main_baseurl_institute, stats>>

vars == <<institution, institute, stats_baseurl_institute,
          main_baseurl_institute, stats, op, args, pc, status, ret, err,
          log, resp, printed, total_dict, ctr, accounts_df, author_id,
          inst_dict, row, frame, ignore_admin>>

NoValue == <<>>

\* the state after Figshare(institution=..., institute=...)
Init ==
    /\ institution \in BOOLEAN
    /\ institute \in Institutes
    /\ stats_baseurl_institute =
          IF institute # <<>> THEN Join(<<stats_baseurl, institute>>)
          ELSE UNSET
    /\ main_baseurl_institute =
          IF institution THEN Join(<<main_baseurl, <<"institution">>>>)
          ELSE UNSET
    /\ stats \in StatsTables
    /\ op = ""
    /\ args = NoValue
    /\ pc = "idle"
    /\ status = "idle"
    /\ ret = NoValue
    /\ err = ""
    /\ log = <<>>
    /\ resp = <<>>
    /\ printed = <<>>
    /\ total_dict = <<>>
    /\ ctr = 0
    /\ accounts_df = None
    /\ author_id = <<>>
    /\ inst_dict = <<>>
    /\ row = 0
    /\ frame = NoValue
    /\ ignore_admin = FALSE

(***************************************************************************)
(* The running call as one value, so that the methods compose              *)
(***************************************************************************)
Cur ==
    [op |-> op, args |-> args, pc |-> pc, status |-> status, ret |-> ret,
     err |-> err, log |-> log, resp |-> resp, printed |-> printed,
     total_dict |-> total_dict, ctr |-> ctr, accounts_df |-> accounts_df,
     author_id |-> author_id, inst_dict |-> inst_dict, row |-> row,
     frame |-> frame, ignore_admin |-> ignore_admin]

Set(s) ==
    /\ op' = s.op
    /\ args' = s.args
    /\ pc' = s.pc
    /\ status' = s.status
    /\ ret' = s.ret
    /\ err' = s.err
    /\ log' = s.log
    /\ resp' = s.resp
    /\ printed' = s.printed
    /\ total_dict' = s.total_dict
    /\ ctr' = s.ctr
    /\ accounts_df' = s.accounts_df
    /\ author_id' = s.author_id
    /\ inst_dict' = s.inst_dict
    /\ row' = s.row
    /\ frame' = s.frame
    /\ ignore_admin' = s.ignore_admin
    /\ UNCHANGED config

\* the public method is entered
Called(name, a) ==
    [Cur EXCEPT !.op = name, !.args = a, !.status = "running"]

\* an exception leaves the method and every caller: nothing catches it
Raise(s, e) == [s EXCEPT !.status = "raised", !.err = e, !.pc = "done"]

\* the public method returns v
Return(s, v) == [s EXCEPT !.status = "returned", !.ret = v, !.pc = "done"]

EmitLine(s, line) == [s EXCEPT !.printed = Append(@, line)]

(***************************************************************************)
(* The remote services behind issue_request                                *)
(***************************************************************************)
NoParams == <<>>

Failure == [ok |-> FALSE, body |-> <<>>]

IsDigits(s) == Len(s) > 0 /\ \A i \in 1..Len(s) : \E d \in 1..10 : s[i] = DIGITS[d]

HasPrefix(s, p) == Len(s) >= Len(p) /\ SubSeq(s, 1, Len(p)) = p

\* the base URLs the statistics service answers on
StatsBases ==
    {stats_baseurl} \cup
    { stats_baseurl \o <<SEP>> \o i : i \in Institutes \ {<<>>} }

\* the counters whose totals the URL asks for
TotalsCounters(url) ==
    { c \in DOMAIN stats :
        \E b \in StatsBases, k \in ItemArgs :
           LET p == b \o <<SEP, "total", SEP, c, SEP, k, SEP>>
           IN  HasPrefix(url, p) /\ IsDigits(SubSeq(url, Len(p) + 1, Len(url))) }

\* the counters whose timeline the URL asks for
TimelineCounters(url) ==
    { c \in DOMAIN stats :
        \E b \in StatsBases, k \in ItemArgs, g \in Granularities :
           LET p == b \o <<SEP, "timeline", SEP, g, SEP, c, SEP, k, SEP>>
           IN  HasPrefix(url, p) /\ IsDigits(SubSeq(url, Len(p) + 1, Len(url))) }

AccountsUrl == main_baseurl \o <<"institution", SEP, "accounts">>

UsersUrl(uid) == main_baseurl \o <<"institution", SEP, "users", SEP>> \o Str(uid)

KnownUserIds == { UserIdAt(k) : k \in 1..MaxAccounts }

\* the JSON bodies the services may answer the request with
Bodies(req) ==
    { [totals |-> stats[c]] : c \in TotalsCounters(req.url) }
    \cup { [timeline |-> <<stats[c], stats[c] + 1>>] :
           c \in TimelineCounters(req.url) }
    \cup (IF req.url = AccountsUrl THEN AccountLists ELSE {})
    \cup { [id |-> AuthorIdOf(u)] : u \in { v \in KnownUserIds : req.url = UsersUrl(v) } }

\* issue_request either raises or returns the parsed body
Responses(req) ==
    {Failure} \cup { [ok |-> TRUE, body |-> b] : b \in Bodies(req) }

\* the call of issue_request and its outcome are recorded
Issued(s, req, r) ==
    [s EXCEPT !.log = Append(@, req), !.resp = Append(@, r)]

RequestFailedSwallowed(s) == s

\* issue_request raised: the error propagates to the caller of the method
RequestFailed(s) == Raise(s, "RemoteRequestFailure")

(***************************************************************************)
(* stats_endpoint                                                          *)
(***************************************************************************)
StatsEndpointFallback(link, inst) ==
    IF inst /\ stats_baseurl_institute # UNSET
    THEN [ok |-> TRUE, url |-> Join(<<stats_baseurl_institute, link>>)]
    ELSE [ok |-> TRUE, url |-> Join(<<stats_baseurl, link>>)]

\* ok is FALSE when the attribute lookup raises AttributeError
StatsEndpoint(link, inst) ==
    IF inst
    THEN IF stats_baseurl_institute = UNSET
         THEN [ok |-> FALSE, url |-> <<>>]
         ELSE [ok |-> TRUE, url |-> Join(<<stats_baseurl_institute, link>>)]
    ELSE [ok |-> TRUE, url |-> Join(<<stats_baseurl, link>>)]

(***************************************************************************)
(* Dictionaries and tables                                                 *)
(***************************************************************************)
\* d[key] = v on a dict with string keys kept as a function
Put(d, key, v) ==
    [k \in DOMAIN d \cup {key} |-> IF k = key THEN v ELSE d[k]]

\* d[key] = v on a dict kept in insertion order
DictPut(d, key, v) ==
    IF \E i \in 1..Len(d) : d[i].key = key
    THEN [i \in 1..Len(d) |->
            IF d[i].key = key THEN [key |-> key, value |-> v] ELSE d[i]]
    ELSE Append(d, [key |-> key, value |-> v])

\* pd.DataFrame.from_dict(d, orient='index'): one row per key
FromDict(d) ==
    [i \in 1..Len(d) |->
        [index |-> d[i].key, views |-> d[i].value["views"],
         downloads |-> d[i].value["downloads"],
         shares |-> d[i].value["shares"]]]

\* the label of the row at position k of a table with the default index
Label(k) == k - 1

LocHalfOpen(df, first, last) ==
    SelectSeq([k \in 1..Len(df) |-> [label |-> Label(k), rec |-> df[k]]],
              LAMBDA x : first <= x.label /\ x.label < last)

\* df.loc[first:last]: the rows whose label lies in first..last, both ends
\* included
Loc(df, first, last) ==
    SelectSeq([k \in 1..Len(df) |-> [label |-> Label(k), rec |-> df[k]]],
              LAMBDA x : first <= x.label /\ x.label <= last)

\* re.search(pattern, s) for a pattern of literal characters and "."
Contains(s, pattern) ==
    \E i \in 1..(Len(s) - Len(pattern) + 1) :
       \A j \in 1..Len(pattern) :
          \/ pattern[j] = "." /\ s[i + j - 1] # "\n"
          \/ pattern[j] # "." /\ pattern[j] = s[i + j - 1]

RECURSIVE LabelsOfTrue(_)
\* list(df[mask].index)
LabelsOfTrue(mask) ==
    IF mask = <<>> THEN <<>>
    ELSE LabelsOfTrue(SubSeq(mask, 1, Len(mask) - 1))
         \o (IF mask[Len(mask)] THEN <<Label(Len(mask))>> ELSE <<>>)

DropIndexAdminOnly(df) ==
    LabelsOfTrue([k \in 1..Len(df) |-> df[k].email = ADMIN_EMAIL])

\* drop_index: the labels of the administrative account, then of the test
\* accounts
DropIndex(df) ==
    LabelsOfTrue([k \in 1..Len(df) |-> df[k].email = ADMIN_EMAIL])
    \o LabelsOfTrue([k \in 1..Len(df) |-> Contains(df[k].email, TEST_PATTERN)])

Range(f) == { f[i] : i \in DOMAIN f }

\* df.drop(labels).reset_index(drop=True)
Drop(df, labels) ==
    LET kept == SelectSeq([k \in 1..Len(df) |-> [label |-> Label(k), rec |-> df[k]]],
                          LAMBDA x : x.label \notin Range(labels))
    IN  [k \in 1..Len(kept) |-> kept[k].rec]

\* accounts_df.drop(columns='institution_id')
DropInstitutionId(accounts) ==
    [k \in 1..Len(accounts) |-> [id |-> accounts[k].id, email |-> accounts[k].email]]

(***************************************************************************)
(* get_institution_totals, after the table is known                        *)
(***************************************************************************)
SliceOfNoneIsEmpty(s) == Return(s, <<>>)

\* df is still None at df.loc[...]: None has no attribute loc
SliceOfNone(s) == Raise(s, "AttributeError")

\* The for loop over df.loc[0:5, 'author_id'] with r - 1 rows done and the
\* totals d collected: get_user_totals -> get_totals is entered for the
\* next row, or the table is built and returned.
InstitutionLoop(s, d, r) ==
    IF s.accounts_df = None THEN SliceOfNone(s)
    ELSE LET rows == Loc(s.accounts_df, FIRST_LABEL, LAST_LABEL)
         IN  IF r <= Len(rows)
             THEN IF ~ValidItem("author") THEN Raise(s, "ValueError")
                  ELSE [s EXCEPT !.inst_dict = d, !.row = r,
                                 !.frame = [item_id |-> rows[r].rec.author_id,
                                            item |-> "author",
                                            institution |-> FALSE],
                                 !.total_dict = <<>>, !.ctr = 1,
                                 !.pc = "get_totals"]
             ELSE Return([s EXCEPT !.inst_dict = d, !.row = r], FromDict(d))

(***************************************************************************)
(* get_totals and get_timeline                                             *)
(***************************************************************************)
\* get_totals up to its loop: the check of the item type
EnterGetTotals(s, item_id, item, inst) ==
    IF ~ValidItem(item) THEN Raise(s, "ValueError")
    ELSE [s EXCEPT !.frame = [item_id |-> item_id, item |-> item,
                              institution |-> inst],
                   !.total_dict = <<>>, !.ctr = 1, !.pc = "get_totals"]

\* return total_dict, to the caller of the method or to the loop of
\* get_institution_totals
ExitGetTotals(s) ==
    IF s.op = "get_institution_totals"
    THEN InstitutionLoop(s, DictPut(s.inst_dict, Str(s.frame.item_id),
                                    s.total_dict), s.row + 1)
    ELSE Return(s, s.total_dict)

\* join('total', counter, item, str(item_id))
TotalsLink(counter, item, item_id) ==
    Join(<< <<"total">>, <<counter>>, <<item>>, Str(item_id) >>)

TimelineLinkNoGranularity(granularity, counter, item, item_id) ==
    Join(<< <<"timeline">>, <<counter>>, <<item>>, Str(item_id) >>)

\* join('timeline', granularity, counter, item, str(item_id))
TimelineLink(granularity, counter, item, item_id) ==
    Join(<< <<"timeline">>, <<granularity>>, <<counter>>, <<item>>,
            Str(item_id) >>)

\* one round of the loop of get_totals, and what follows the last round
StepGetTotals ==
    /\ pc = "get_totals"
    /\ LET counter == counters[ctr]
           u == StatsEndpoint(TotalsLink(counter, frame.item, frame.item_id),
                              frame.institution)
           req == [method |-> "GET", url |-> u.url,
                   headers |-> "basic_headers", params |-> NoParams]
       IN  IF ~u.ok THEN Set(Raise(Cur, "AttributeError"))
           ELSE \E r \in Responses(req) :
                  LET s1 == Issued(Cur, req, r)
                      s2 == [s1 EXCEPT
                               !.total_dict = Put(@, counter, r.body.totals),
                               !.ctr = @ + 1]
                  IN  IF ~r.ok THEN Set(RequestFailed(s1))
                      ELSE IF s2.ctr > Len(counters) THEN Set(ExitGetTotals(s2))
                      ELSE Set(s2)

\* one round of the loop of get_timeline, and the return after the last
StepGetTimeline ==
    /\ pc = "get_timeline"
    /\ LET counter == counters[ctr]
           u == StatsEndpoint(TimelineLink(args.granularity, counter,
                                           args.item, args.item_id),
                              args.institution)
           req == [method |-> "GET", url |-> u.url,
                   headers |-> "basic_headers", params |-> NoParams]
       IN  IF ~u.ok THEN Set(Raise(Cur, "AttributeError"))
           ELSE \E r \in Responses(req) :
                  LET s1 == Issued(Cur, req, r)
                      s2 == [s1 EXCEPT
                               !.total_dict = Put(@, counter, r.body.timeline),
                               !.ctr = @ + 1]
                  IN  IF ~r.ok THEN Set(RequestFailed(s1))
                      ELSE IF s2.ctr > Len(counters) THEN Set(Return(s2, s2.total_dict))
                      ELSE Set(s2)

(***************************************************************************)
(* get_figshare_id and retrieve_institution_users                          *)
(***************************************************************************)
\* accounts_df['author_id'] = author_id; return accounts_df, to the caller
\* of the method or to get_institution_totals
ExitGetFigshareId(s) ==
    LET df == [k \in 1..Len(s.accounts_df) |->
                 [id |-> s.accounts_df[k].id, email |-> s.accounts_df[k].email,
                  author_id |-> s.author_id[k]]]
        s1 == [s EXCEPT !.accounts_df = df]
    IN  IF s.op = "get_institution_totals" THEN InstitutionLoop(s1, <<>>, 1)
        ELSE Return(s1, df)

\* get_figshare_id up to the first request
EnterGetFigshareId(s, df) ==
    IF main_baseurl_institute = UNSET THEN Raise(s, "AttributeError")
    ELSE LET s1 == [s EXCEPT !.accounts_df = df, !.author_id = <<>>,
                             !.pc = "get_figshare_id"]
         IN  IF Len(df) = 0 THEN ExitGetFigshareId(s1) ELSE s1

\* one round of the loop of get_figshare_id, and what follows the last
StepGetFigshareId ==
    /\ pc = "get_figshare_id"
    /\ LET endpoint == Join(<<main_baseurl_institute, <<"users">>>>)
           institute_id == accounts_df[Len(author_id) + 1].id
           req == [method |-> "GET",
                   url |-> endpoint \o <<SEP>> \o Str(institute_id),
                   headers |-> "api_headers", params |-> NoParams]
       IN  \E r \in Responses(req) :
              LET s1 == Issued(Cur, req, r)
                  s2 == [s1 EXCEPT !.author_id = Append(@, r.body.id)]
              IN  IF ~r.ok THEN Set(RequestFailed(s1))
                  ELSE IF Len(s2.author_id) = Len(accounts_df)
                       THEN Set(ExitGetFigshareId(s2))
                  ELSE Set(s2)

\* retrieve_institution_users up to its request
EnterRetrieveInstitutionUsers(s, ignore) ==
    IF main_baseurl_institute = UNSET THEN Raise(s, "AttributeError")
    ELSE [s EXCEPT !.ignore_admin = ignore,
                   !.pc = "retrieve_institution_users"]

\* the listing request of retrieve_institution_users and the code after it
\* up to the first request of get_figshare_id
StepRetrieveInstitutionUsers ==
    /\ pc = "retrieve_institution_users"
    /\ LET req == [method |-> "GET",
                   url |-> Join(<<main_baseurl_institute, <<"accounts">>>>),
                   headers |-> "api_headers", params |-> Params]
       IN  \E r \in Responses(req) :
              LET s1 == Issued(Cur, req, r)
                  df == DropInstitutionId(r.body)
                  s2 == IF ignore_admin
                        THEN EmitLine(s1, "Excluding administrative and test accounts")
                        ELSE s1
                  kept == IF ignore_admin THEN Drop(df, DropIndex(df)) ELSE df
              IN  IF ~r.ok THEN Set(RequestFailed(s1))
                  \* an empty listing has no column institution_id to drop
                  ELSE IF Len(r.body) = 0 THEN Set(Raise(s1, "KeyError"))
                  ELSE Set(EnterGetFigshareId(s2, kept))

(***************************************************************************)
(* The calls                                                               *)
(***************************************************************************)
CallStatsEndpoint ==
    /\ pc = "idle"
    /\ \E link \in Links, inst \in BOOLEAN :
          LET s == Called("stats_endpoint", [link |-> link, institution |-> inst])
              u == StatsEndpoint(link, inst)
          IN  IF u.ok THEN Set(Return(s, u.url))
              ELSE Set(Raise(s, "AttributeError"))

CallGetTotals ==
    /\ pc = "idle"
    /\ \E item_id \in ItemIds, item \in ItemArgs, inst \in BOOLEAN :
          Set(EnterGetTotals(Called("get_totals",
                                    [item_id |-> item_id, item |-> item,
                                     institution |-> inst]),
                             item_id, item, inst))

\* get_user_totals: get_totals(author_id, item='author', institution=False)
CallGetUserTotals ==
    /\ pc = "idle"
    /\ \E a \in ItemIds :
          Set(EnterGetTotals(Called("get_user_totals", [author_id |-> a]),
                             a, "author", FALSE))

CallGetTimeline ==
    /\ pc = "idle"
    /\ \E item_id \in ItemIds, item \in ItemArgs, g \in Granularities,
          inst \in BOOLEAN :
          Set([Called("get_timeline",
                      [item_id |-> item_id, item |-> item, granularity |-> g,
                       institution |-> inst])
               EXCEPT !.total_dict = <<>>, !.ctr = 1, !.pc = "get_timeline"])

CallGetFigshareId ==
    /\ pc = "idle"
    /\ \E df \in PlainTables :
          Set(EnterGetFigshareId(Called("get_figshare_id", [accounts_df |-> df]),
                                 df))

CallRetrieveInstitutionUsers ==
    /\ pc = "idle"
    /\ \E ignore \in BOOLEAN :
          Set(EnterRetrieveInstitutionUsers(
                 Called("retrieve_institution_users", [ignore_admin |-> ignore]),
                 ignore))

CallGetInstitutionTotals ==
    /\ pc = "idle"
    /\ \E df \in TotalsTables \cup {None}, by_method \in ByMethods :
          LET s == [Called("get_institution_totals",
                           [df |-> df, by_method |-> by_method])
                    EXCEPT !.accounts_df = df]
          IN  IF df = None /\ by_method = "author"
              THEN Set(EnterRetrieveInstitutionUsers(s, FALSE))
              ELSE IF df = None /\ by_method = "article"
              THEN Set(InstitutionLoop(EmitLine(s, "Need to retrieve articles"),
                                       <<>>, 1))
              ELSE Set(InstitutionLoop(s, <<>>, 1))

Next ==
    \/ CallStatsEndpoint
    \/ CallGetTotals
    \/ CallGetUserTotals
    \/ CallGetTimeline
    \/ CallGetFigshareId
    \/ CallRetrieveInstitutionUsers
    \/ CallGetInstitutionTotals
    \/ StepGetTotals
    \/ StepGetTimeline
    \/ StepGetFigshareId
    \/ StepRetrieveInstitutionUsers

Spec == Init /\ [][Next]_vars

(***************************************************************************)
(* Properties                                                              *)
(***************************************************************************)
\* C1: a get_totals call with a supported item type issues its requests in
\* the order views, downloads, shares, each a GET to
\* total/<counter>/<item>/<item_id>; when all three succeed it has issued
\* exactly three and returns a mapping with exactly the keys views,
\* downloads, shares, each holding the totals field of the response to that
\* counter's own request.
C1_TotalsContract ==
    (op = "get_totals"
       /\ args.item \in {"article", "author", "collection", "group", "project"})
    =>
    LET order == <<"views", "downloads", "shares">>
        path(i) == <<SEP, "total", SEP, order[i], SEP, args.item, SEP>>
                   \o Str(args.item_id)
    IN  /\ Len(log) <= 3
        /\ \A i \in 1..Len(log) :
              /\ log[i].method = "GET"
              /\ Len(log[i].url) > Len(path(i))
              /\ SubSeq(log[i].url, Len(log[i].url) - Len(path(i)) + 1,
                        Len(log[i].url)) = path(i)
        /\ status = "returned" =>
              /\ Len(log) = 3
              /\ DOMAIN ret = {"views", "downloads", "shares"}
              /\ \A i \in 1..3 :
                    resp[i].ok /\ ret[order[i]] = resp[i].body.totals

\* the round trip of the specification: 42 for each counter of article 99
C1_Witness ==
    /\ op = "get_totals"
    /\ args.item_id = 99 /\ args.item = "article" /\ ~args.institution
    /\ status = "returned"
    /\ Len(log) = 3
    /\ ret = [views |-> 42, downloads |-> 42, shares |-> 42]

\* C2: get_totals with an item type outside article, author, collection,
\* group, project raises ValueError and has issued no request, whatever the
\* item id and the institution flag.
C2_InvalidItemRejected ==
    (op = "get_totals"
       /\ args.item \notin {"article", "author", "collection", "group", "project"})
    => (status = "raised" /\ err = "ValueError" /\ log = <<>> /\ resp = <<>>)

C2_Witness ==
    /\ op = "get_totals"
    /\ args.item = "file" /\ args.institution
    /\ status = "raised" /\ err = "ValueError"

\* C3: whatever the institution flag of get_totals, every URL it requests
\* is built on the plain statistics base URL.
C3_ScopeFlagIgnored ==
    (op = "get_totals"
       /\ args.item \in {"article", "author", "collection", "group", "project"})
    =>
    \A i \in 1..Len(log) :
          \E c \in {"views", "downloads", "shares"} :
             log[i].url = stats_baseurl
                          \o <<SEP, "total", SEP, c, SEP, args.item, SEP>>
                          \o Str(args.item_id)

\* C4: retrieve_institution_users(ignore_admin=True) returns exactly the
\* listed accounts, in their order, whose email is neither the
\* administrative address nor matches the test pattern; after the listing
\* it has issued one users/<id> request per returned row, in row order, and
\* each row's author_id is the id of the response to its own request.
C4_FilteredAccounts ==
    (op = "retrieve_institution_users" /\ args.ignore_admin
       /\ status = "returned")
    =>
    LET listed == resp[1].body
        kept == SelectSeq(listed,
                   LAMBDA a : /\ a.email # ADMIN_EMAIL
                              /\ ~Contains(a.email, TEST_PATTERN))
    IN  /\ Len(ret) = Len(kept)
        /\ Len(log) = 1 + Len(kept)
        /\ \A k \in 1..Len(kept) :
              /\ ret[k].id = kept[k].id
              /\ ret[k].email = kept[k].email
              /\ log[k + 1].method = "GET"
              /\ log[k + 1].url = main_baseurl
                    \o <<"institution", SEP, "users", SEP>> \o Str(kept[k].id)
              /\ resp[k + 1].ok
              /\ ret[k].author_id = resp[k + 1].body.id

\* an administrative, a test and an ordinary account were listed
C4_Witness ==
    /\ op = "retrieve_institution_users" /\ args.ignore_admin
    /\ status = "returned"
    /\ Len(resp[1].body) = 3
    /\ resp[1].body[1].email = ADMIN_EMAIL
    /\ resp[1].body[2].email = EmailUser
    /\ resp[1].body[3].email = EmailWild
    /\ Len(ret) = 1

\* C5: get_institution_totals on a given table of six or more rows only
\* requests the totals of the authors of the rows labelled 0..5: its
\* requests are, in order, the three counters of each of these rows, 18
\* when it returns, and none is for the author of a later row.
C5_FirstSixRows ==
    (op = "get_institution_totals" /\ args.df # None /\ Len(args.df) >= 6)
    =>
    LET order == <<"views", "downloads", "shares">>
        expected(i) ==
            stats_baseurl
            \o <<SEP, "total", SEP, order[((i - 1) % 3) + 1], SEP, "author", SEP>>
            \o Str(args.df[((i - 1) \div 3) + 1].author_id)
        firstSix == { args.df[k].author_id : k \in 1..6 }
    IN  /\ Len(log) <= 18
        /\ \A i \in 1..Len(log) : log[i].url = expected(i)
        /\ \A k \in 7..Len(args.df) :
              args.df[k].author_id \notin firstSix =>
                 \A i \in 1..Len(log) :
                    LET tail == <<SEP>> \o Str(args.df[k].author_id)
                    IN  SubSeq(log[i].url, Len(log[i].url) - Len(tail) + 1,
                               Len(log[i].url)) # tail
        /\ status = "returned" => (Len(log) = 18 /\ Len(ret) <= 6)

C5_Witness ==
    /\ op = "get_institution_totals"
    /\ args.df # None /\ Len(args.df) = 7
    /\ status = "returned"
    /\ Len(log) = 18

\* C6, as stated: every execution of retrieve_institution_users that has
\* ended issued exactly one accounts request.
C6_ExactlyOneListing ==
    (op = "retrieve_institution_users" /\ status \in {"returned", "raised"})
    =>
    Cardinality({ i \in 1..Len(log) :
                    log[i].url = main_baseurl \o <<"institution", SEP, "accounts">> })
       = 1

\* C6, amended: on a client constructed with institution=True an
\* execution of retrieve_institution_users issues exactly one accounts
\* request, with page=1 and page_size=1000, before every users/<id>
\* request; on a client constructed without it the execution fails with no
\* request at all.
C6_ListingOnInstitutionClient ==
    (op = "retrieve_institution_users")
    =>
    LET accounts == main_baseurl \o <<"institution", SEP, "accounts">>
    IN  IF institution
        THEN /\ \A i \in 1..Len(log) :
                   IF i = 1
                   THEN /\ log[i].method = "GET"
                        /\ log[i].url = accounts
                        /\ log[i].params = [page |-> 1, page_size |-> 1000]
                   ELSE /\ log[i].url # accounts
                        /\ log[i].params = NoParams
             /\ status \in {"returned", "raised"} => Len(log) >= 1
        ELSE status = "raised" /\ err = "AttributeError" /\ log = <<>>

C6_Witness ==
    /\ op = "retrieve_institution_users"
    /\ institution
    /\ status = "returned"
    /\ Len(log) = 4

\* C7: a failed request is the last request of the operation, which ends
\* with that error and returns nothing.
C7_FailureAborts ==
    /\ Len(log) = Len(resp)
    /\ \A i \in 1..Len(resp) :
          ~resp[i].ok =>
             /\ i = Len(resp)
             /\ status = "raised"
             /\ err = "RemoteRequestFailure"
             /\ pc = "done"
             /\ ret = NoValue

\* the listing, the author ids and one author's first two counters
\* succeeded before the failure
C7_Witness ==
    /\ op = "get_institution_totals"
    /\ args.df = None
    /\ Len(resp) >= 6
    /\ ~resp[Len(resp)].ok
    /\ total_dict # <<>>
    /\ status = "raised"

\* C8: get_timeline, for any item type, issues its requests in the order
\* views, downloads, shares, each to
\* timeline/<granularity>/<counter>/<item>/<item_id>; when all three
\* succeed it returns a mapping with exactly the three counter keys, each
\* holding the timeline field of the response to that counter's request.
C8_TimelineContract ==
    (op = "get_timeline")
    =>
    LET order == <<"views", "downloads", "shares">>
        path(i) == <<SEP, "timeline", SEP, args.granularity, SEP, order[i],
                     SEP, args.item, SEP>> \o Str(args.item_id)
    IN  /\ Len(log) <= 3
        /\ \A i \in 1..Len(log) :
              /\ log[i].method = "GET"
              /\ Len(log[i].url) > Len(path(i))
              /\ SubSeq(log[i].url, Len(log[i].url) - Len(path(i)) + 1,
                        Len(log[i].url)) = path(i)
        /\ status = "returned" =>
              /\ Len(log) = 3
              /\ DOMAIN ret = {"views", "downloads", "shares"}
              /\ \A i \in 1..3 :
                    resp[i].ok /\ ret[order[i]] = resp[i].body.timeline

\* an item type get_totals would reject
C8_Witness ==
    /\ op = "get_timeline"
    /\ args.item = "file" /\ args.granularity = "week"
    /\ status = "returned"
    /\ ret["views"] = <<10, 11>>
    /\ ret["shares"] = <<30, 31>>

====
